---- MODULE Spec2Model ----
(***************************************************************************)
(* Model of find_ind_poly.py: the memoised exclude/include recursion that  *)
(* computes the independence polynomial of a graph, the functools.lru_cache*)
(* wrapper around it, the numpy int64 coefficient arithmetic and the       *)
(* formatting of the result string.                                        *)
(***************************************************************************)
EXTENDS Integers, Sequences, FiniteSets, TLC

VARIABLES
    mode,              \* which family of graphs the driver supplies
    maxsize,           \* maxsize of the lru_cache decorator
    graph,             \* the graph of the current call: [nodes, nbr]
    neighbors_dict,    \* result of precompute_neighbors(graph)
    recursion_count,   \* the module-level counter
    cache,             \* lru_cache entries, least recently used first
    hits, misses,      \* lru_cache statistics (cache_info)
    stack,             \* active invocations of the recursive function
    coefficients,      \* the array returned by the outermost invocation
    poly_str,          \* the string returned by independence_polynomial
    pc,                \* "idle", "running", "format", "done"
    computed,          \* history: how often the body ran for each key
    warm               \* history: an earlier call has run in this process

vars == <<mode, maxsize, graph, neighbors_dict, recursion_count, cache, hits,
          misses, stack, coefficients, poly_str, pc, computed, warm>>

----------------------------------------------------------------------------
(* Bounds of the model *)

\* largest number of vertices of the exhaustively enumerated graphs
MaxN == 3

\* largest cache capacity tried where eviction is explored
CacheCap == 2

\* number of vertices of the large edgeless graph
WideN == 67

----------------------------------------------------------------------------
(* numpy int64: four 16-bit limbs, least significant first, two's complement *)

Base == 65536

SignLimb == 32768

Limbs == 4

lru_maxsize == 50000000

Zero64 == <<0, 0, 0, 0>>

One64 == <<1, 0, 0, 0>>

\* int64 of a small non-negative integer
Int64Of(k) == <<k % Base, (k \div Base) % Base, 0, 0>>

\* a + b on int64: ripple carry, the carry out of the top limb is dropped
Add64(a, b) ==
    LET s1 == a[1] + b[1]
        s2 == a[2] + b[2] + (s1 \div Base)
        s3 == a[3] + b[3] + (s2 \div Base)
        s4 == a[4] + b[4] + (s3 \div Base)
    IN  <<s1 % Base, s2 % Base, s3 % Base, s4 % Base>>

IsNeg64(a) == a[Limbs] >= SignLimb

\* coeff > 0
IsPos64(a) == ~IsNeg64(a) /\ a # Zero64

\* -a on int64 (two's complement)
Neg64(a) ==
    Add64(<<Base - 1 - a[1], Base - 1 - a[2], Base - 1 - a[3], Base - 1 - a[4]>>,
          One64)

Max(a, b) == IF a >= b THEN a ELSE b

----------------------------------------------------------------------------
(* Graphs: the vertex enumeration order and the neighbour sets *)

\* enumeration orders of the vertices 1..n: ascending, descending, and
\* ascending rotated by one
Orders(n) ==
    {[i \in 1..n |-> i], [i \in 1..n |-> n + 1 - i], [i \in 1..n |-> (i % n) + 1]}

Pairs(S) == {e \in SUBSET S : Cardinality(e) = 2}

\* graph.nodes() enumerates `order`; graph.neighbors(v) is built from the
\* edges E and, when loop is a vertex, the self-loop at it
MkGraph(order, E, loop) ==
    LET V == {order[i] : i \in DOMAIN order}
    IN  [nodes |-> order,
         nbr   |-> [v \in V |-> {u \in V : u # v /\ {u, v} \in E}
                                 \cup (IF loop = v THEN {v} ELSE {})]]

\* nx.cycle_graph(n): nodes 0..n-1 in order, i adjacent to i+1 mod n
cycle_graph(n) ==
    MkGraph([i \in 1..n |-> i - 1],
            {{i, (i + 1) % n} : i \in 0..(n - 1)},
            -1)

\* compute_graph_recursive(n, 1): range(1, 1) is empty, the graph is the cycle
compute_graph_recursive(n) == cycle_graph(n)

CycleN == 5

SmallGraphs ==
    UNION {{MkGraph(p, E, l) : p \in Orders(n), E \in SUBSET Pairs(1..n), l \in 0..n}
           : n \in 0..MaxN}
    \cup {compute_graph_recursive(CycleN)}

\* nx.empty_graph(n): n vertices, no edge
empty_graph(n) == MkGraph([i \in 1..n |-> i], {}, 0)

WideGraphs == {empty_graph(n) : n \in {WideN - 1, WideN}}

Graphs(m) == IF m = "wide" THEN WideGraphs ELSE SmallGraphs

HasSelfLoop(g) == \E v \in DOMAIN g.nbr : v \in g.nbr[v]

----------------------------------------------------------------------------
(* The pure pieces of the recursive function *)

\* line 30: {node: set(graph.neighbors(node)) for node in graph.nodes()}
precompute_neighbors(g) == [v \in DOMAIN g.nbr |-> g.nbr[v]]

\* line 49: nodes[1:]
remaining_nodes(nodes) == Tail(nodes)

\* a filter that prepends instead of appending the kept vertices
remaining_after_neighbors_reversed(nodes, nbrs) ==
    LET rest == remaining_nodes(nodes)
        F[i \in 0..Len(rest)] ==
            IF i = 0 THEN <<>>
            ELSE IF rest[i] \in nbrs[nodes[1]] THEN F[i - 1]
                 ELSE <<rest[i]>> \o F[i - 1]
    IN  F[Len(rest)]

\* a filter applied to nodes instead of remaining_nodes: the pivot stays
remaining_after_neighbors_of_nodes(nodes, nbrs) ==
    SelectSeq(nodes, LAMBDA n : n \notin nbrs[nodes[1]])

\* lines 53-54: tuple(n for n in remaining_nodes if n not in neighbors)
remaining_after_neighbors(nodes, nbrs) ==
    SelectSeq(remaining_nodes(nodes), LAMBDA n : n \notin nbrs[nodes[1]])

\* line 46: np.array([1], dtype=np.int64)
base_poly == <<One64>>

\* lines 58-61: zeros(max(len(ex), len(inc) + 1)); [:len(ex)] += ex;
\* [1:len(inc)+1] += inc
result_poly(exclude_poly, include_poly) ==
    LET size == Max(Len(exclude_poly), Len(include_poly) + 1)
    IN  [i \in 1..size |->
            Add64(Add64(Zero64,
                        IF i <= Len(exclude_poly) THEN exclude_poly[i] ELSE Zero64),
                  IF i >= 2 /\ i <= Len(include_poly) + 1
                  THEN include_poly[i - 1] ELSE Zero64)]

----------------------------------------------------------------------------
(* functools.lru_cache(maxsize=...) *)

CacheKeys(c) == {c[i].key : i \in DOMAIN c}

CacheIndex(c, key) == CHOOSE i \in DOMAIN c : c[i].key = key

CacheGet(c, key) == c[CacheIndex(c, key)].result

\* a decorator applied once at module level: the wrapper outlives the call
lru_cache_kept(old) == old

\* line 38: the decorator runs inside independence_polynomial, so every call
\* builds a new wrapper with an empty cache
lru_cache(old) == <<>>

\* a hit moves the entry to the most recently used end
cache_hit(c, key) ==
    LET i == CacheIndex(c, key)
    IN  SubSeq(c, 1, i - 1) \o SubSeq(c, i + 1, Len(c)) \o <<c[i]>>

\* a wrapper that stores nothing for the empty key
cache_store_skip_empty(c, key, result, cap) ==
    IF key = <<>> \/ key \in CacheKeys(c) THEN c
    ELSE IF Len(c) < cap \/ Len(c) = 0
         THEN Append(c, [key |-> key, result |-> result])
         ELSE Append(Tail(c), [key |-> key, result |-> result])

\* after the wrapped function returned: keep the cache if the key arrived
\* meanwhile, append while there is room, else drop the least recently used
cache_store(c, key, result, cap) ==
    IF key \in CacheKeys(c) THEN c
    ELSE IF Len(c) < cap \/ Len(c) = 0
         THEN Append(c, [key |-> key, result |-> result])
         ELSE Append(Tail(c), [key |-> key, result |-> result])

----------------------------------------------------------------------------
(* Formatting: strings are sequences of characters *)

Digit(d) == <<"0", "1", "2", "3", "4", "5", "6", "7", "8", "9">>[d + 1]

\* str(i) of a non-negative Python int
RECURSIVE IntStr(_)
IntStr(i) == IF i < 10 THEN <<Digit(i)>> ELSE IntStr(i \div 10) \o <<Digit(i % 10)>>

\* quotient and remainder of a non-negative int64 by ten, most significant
\* limb first
DivMod10(a) ==
    LET c4 == a[4]
        c3 == (c4 % 10) * Base + a[3]
        c2 == (c3 % 10) * Base + a[2]
        c1 == (c2 % 10) * Base + a[1]
    IN  [quot |-> <<c1 \div 10, c2 \div 10, c3 \div 10, c4 \div 10>>, rem |-> c1 % 10]

RECURSIVE NatStr64(_)
NatStr64(a) ==
    LET qr == DivMod10(a)
    IN  IF qr.quot = Zero64 THEN <<Digit(qr.rem)>>
        ELSE NatStr64(qr.quot) \o <<Digit(qr.rem)>>

\* str(coeff) of a numpy int64
Str64(a) == IF IsNeg64(a) THEN <<"-">> \o NatStr64(Neg64(a)) ELSE NatStr64(a)

\* line 69: f"{coeff}x^{i}" if i > 1 else (f"{coeff}x" if i == 1 else f"{coeff}")
term(i, coeff) ==
    IF i > 1 THEN Str64(coeff) \o <<"x", "^">> \o IntStr(i)
    ELSE IF i = 1 THEN Str64(coeff) \o <<"x">>
    ELSE Str64(coeff)

\* " + ".join(parts)
RECURSIVE Join(_)
Join(parts) ==
    IF parts = <<>> THEN <<>>
    ELSE IF Len(parts) = 1 THEN parts[1]
    ELSE parts[1] \o <<" ", "+", " ">> \o Join(Tail(parts))

\* lines 68-72: the terms of the coefficients that are > 0, by increasing degree
format_poly(coeffs) ==
    LET kept == SelectSeq([i \in 1..Len(coeffs) |-> i], LAMBDA i : IsPos64(coeffs[i]))
    IN  Join([k \in 1..Len(kept) |-> term(kept[k] - 1, coeffs[kept[k]])])

----------------------------------------------------------------------------
(* The call stack of the recursive function *)

\* an invocation that has just entered the lru_cache wrapper
Frame(nodes) ==
    [nodes |-> nodes, at |-> "call", exclude_poly |-> <<>>, include_poly |-> <<>>]

Top == stack[Len(stack)]

Pop(stk) == SubSeq(stk, 1, Len(stk) - 1)

SetTop(stk, f) == [stk EXCEPT ![Len(stk)] = f]

\* the caller's frame once the callee has returned `value` to it
Resume(f, value) ==
    IF f.at = "wait_exclude"
    THEN [f EXCEPT !.at = "got_exclude", !.exclude_poly = value]
    ELSE [f EXCEPT !.at = "got_include", !.include_poly = value]

\* the top invocation returns `value`: to its caller (lines 51, 56) or, for
\* the outermost one, to independence_polynomial (line 66)
Return(value) ==
    LET below == Pop(stack)
    IN  IF below = <<>>
        THEN /\ stack' = <<>>
             /\ coefficients' = value
             /\ pc' = "format"
        ELSE /\ stack' = SetTop(below, Resume(below[Len(below)], value))
             /\ UNCHANGED <<coefficients, pc>>

----------------------------------------------------------------------------
(* Initial states *)

InitWith(m, caps) ==
    /\ mode = m
    /\ maxsize \in caps
    /\ graph = MkGraph(<<>>, {}, 0)
    /\ neighbors_dict = <<>>
    /\ recursion_count = 0
    /\ cache = <<>>
    /\ hits = 0
    /\ misses = 0
    /\ stack = <<>>
    /\ coefficients = <<>>
    /\ poly_str = <<>>
    /\ pc = "idle"
    /\ computed = <<>>
    /\ warm = FALSE

\* the program as written: small graphs, maxsize=50000000
Init == InitWith("small", {lru_maxsize})

\* the same program with the decorator's maxsize scaled down to 1..CacheCap.
\* The wrapper's rule (drop the least recently used entry once len(cache)
\* has reached maxsize) does not depend on the value of maxsize; with
\* maxsize=50000000 it takes a graph with more than 50000000 distinct keys
\* to reach it, a small maxsize reaches the same branch on small graphs.
InitEvict == InitWith("small", 1..CacheCap)

\* the program as written on the large edgeless graphs
InitWide == InitWith("wide", {lru_maxsize})

----------------------------------------------------------------------------
(* Actions *)

\* lines 32-39 and 65-66: independence_polynomial(graph) up to the outermost
\* invocation of the recursive function
independence_polynomial ==
    /\ pc \in {"idle", "done"}
    /\ \E g \in Graphs(mode) :
        /\ graph' = g
        /\ neighbors_dict' = precompute_neighbors(g)
        /\ stack' = <<Frame(g.nodes)>>
    /\ recursion_count' = 0
    /\ cache' = lru_cache(cache)
    /\ hits' = 0
    /\ misses' = 0
    /\ coefficients' = <<>>
    /\ poly_str' = <<>>
    /\ pc' = "running"
    /\ computed' = <<>>
    /\ warm' = (pc = "done")
    /\ UNCHANGED <<mode, maxsize>>

\* the wrapper finds the key: the cached array is returned, the body is not run
CacheHit ==
    /\ pc = "running"
    /\ Top.at = "call"
    /\ Top.nodes \in CacheKeys(cache)
    /\ hits' = hits + 1
    /\ cache' = cache_hit(cache, Top.nodes)
    /\ Return(CacheGet(cache, Top.nodes))
    /\ UNCHANGED <<mode, maxsize, graph, neighbors_dict, recursion_count, misses,
                   poly_str, computed, warm>>

\* the wrapper does not find the key and calls the function: lines 40-43
CacheMiss ==
    /\ pc = "running"
    /\ Top.at = "call"
    /\ Top.nodes \notin CacheKeys(cache)
    /\ misses' = misses + 1
    /\ recursion_count' = recursion_count + 1
    /\ computed' = IF Top.nodes \in DOMAIN computed
                   THEN [computed EXCEPT ![Top.nodes] = @ + 1]
                   ELSE [k \in DOMAIN computed \cup {Top.nodes} |->
                            IF k = Top.nodes THEN 1 ELSE computed[k]]
    /\ stack' = SetTop(stack, [Top EXCEPT !.at = "body"])
    /\ UNCHANGED <<mode, maxsize, graph, neighbors_dict, cache, hits, coefficients,
                   poly_str, pc, warm>>

\* lines 45-46, and the wrapper storing the returned array
BaseCase ==
    /\ pc = "running"
    /\ Top.at = "body"
    /\ Top.nodes = <<>>
    /\ cache' = cache_store(cache, Top.nodes, base_poly, maxsize)
    /\ Return(base_poly)
    /\ UNCHANGED <<mode, maxsize, graph, neighbors_dict, recursion_count, hits,
                   misses, poly_str, computed, warm>>

\* lines 48-51: the call for exclude_poly
CallExclude ==
    /\ pc = "running"
    /\ Top.at = "body"
    /\ Top.nodes # <<>>
    /\ stack' = Append(SetTop(stack, [Top EXCEPT !.at = "wait_exclude"]),
                       Frame(remaining_nodes(Top.nodes)))
    /\ UNCHANGED <<mode, maxsize, graph, neighbors_dict, recursion_count, cache,
                   hits, misses, coefficients, poly_str, pc, computed, warm>>

\* lines 53-56: the call for include_poly
CallInclude ==
    /\ pc = "running"
    /\ Top.at = "got_exclude"
    /\ stack' = Append(SetTop(stack, [Top EXCEPT !.at = "wait_include"]),
                       Frame(remaining_after_neighbors(Top.nodes, neighbors_dict)))
    /\ UNCHANGED <<mode, maxsize, graph, neighbors_dict, recursion_count, cache,
                   hits, misses, coefficients, poly_str, pc, computed, warm>>

\* lines 58-63, and the wrapper storing the returned array
Combine ==
    /\ pc = "running"
    /\ Top.at = "got_include"
    /\ LET r == result_poly(Top.exclude_poly, Top.include_poly)
       IN  /\ cache' = cache_store(cache, Top.nodes, r, maxsize)
           /\ Return(r)
    /\ UNCHANGED <<mode, maxsize, graph, neighbors_dict, recursion_count, hits,
                   misses, poly_str, computed, warm>>

\* lines 68-76: the result string
Format ==
    /\ pc = "format"
    /\ poly_str' = format_poly(coefficients)
    /\ pc' = "done"
    /\ UNCHANGED <<mode, maxsize, graph, neighbors_dict, recursion_count, cache,
                   hits, misses, stack, coefficients, computed, warm>>

\* the steps of one call of independence_polynomial once it has started
Run ==
    \/ CacheHit
    \/ CacheMiss
    \/ BaseCase
    \/ CallExclude
    \/ CallInclude
    \/ Combine
    \/ Format

Next ==
    \/ independence_polynomial
    \/ CacheHit
    \/ CacheMiss
    \/ BaseCase
    \/ CallExclude
    \/ CallInclude
    \/ Combine
    \/ Format

Spec == Init /\ [][Next]_vars

SpecEvict == InitEvict /\ [][Next]_vars

SpecWide == InitWide /\ [][Next]_vars

\* one call runs to completion: Python executes it on a single thread and
\* nothing else can pre-empt it
LiveSpec == Init /\ [][Next]_vars /\ WF_vars(Run)

----------------------------------------------------------------------------
(* Exact natural numbers: limbs, least significant first, no leading zero *)

RECURSIVE NatAddC(_, _, _)
NatAddC(a, b, c) ==
    IF a = <<>> /\ b = <<>> THEN (IF c = 0 THEN <<>> ELSE <<c>>)
    ELSE LET x == IF a = <<>> THEN 0 ELSE Head(a)
             y == IF b = <<>> THEN 0 ELSE Head(b)
             s == x + y + c
         IN  <<s % Base>> \o NatAddC(IF a = <<>> THEN a ELSE Tail(a),
                                     IF b = <<>> THEN b ELSE Tail(b),
                                     s \div Base)

NatAdd(a, b) == NatAddC(a, b, 0)

RECURSIVE NatStrip(_)
NatStrip(a) ==
    IF a = <<>> THEN a
    ELSE IF a[Len(a)] = 0 THEN NatStrip(SubSeq(a, 1, Len(a) - 1)) ELSE a

\* the value of a non-negative int64
NatOf64(a) == NatStrip(a)

\* the value of a small non-negative integer
NatOfInt(k) == NatStrip(Int64Of(k))

\* the row after `row` in Pascal's triangle
PascalNext(row) ==
    <<>> \o [i \in 1..(Len(row) + 1) |->
               NatAdd(IF i <= Len(row) THEN row[i] ELSE <<>>,
                      IF i >= 2 THEN row[i - 1] ELSE <<>>)]

\* row n of Pascal's triangle: C(n, 0), ..., C(n, n)
RECURSIVE PascalFrom(_, _)
PascalFrom(row, k) ==
    IF k = 0 THEN row
    ELSE LET next == PascalNext(row)
         IN  IF Len(next) = Len(row) + 1 THEN PascalFrom(next, k - 1) ELSE <<>>

PascalRow(n) == PascalFrom(<<NatOfInt(1)>>, n)

Vertices(g) == DOMAIN g.nbr

Edgeless(g) == \A v \in Vertices(g) : g.nbr[v] = {}

IsIndependent(g, S) == \A u, v \in S : u # v => v \notin g.nbr[u]

\* the number of independent vertex sets of size i; in an edgeless graph
\* every vertex set is independent and the number is C(n, i)
IndependentSets(g, i) ==
    IF Edgeless(g)
    THEN PascalRow(Cardinality(Vertices(g)))[i + 1]
    ELSE NatOfInt(Cardinality({S \in SUBSET Vertices(g) :
                                 Cardinality(S) = i /\ IsIndependent(g, S)}))

\* the coefficient at degree i of an array
CoeffAt(coeffs, i) == IF i + 1 <= Len(coeffs) THEN coeffs[i + 1] ELSE Zero64

\* an int64 that holds exactly the natural number n
Holds(a, n) == ~IsNeg64(a) /\ NatOf64(a) = n

Returned == pc \in {"format", "done"}

SeqRange(s) == {s[i] : i \in DOMAIN s}

RECURSIVE IsSubseq(_, _)
IsSubseq(s, t) ==
    IF s = <<>> THEN TRUE
    ELSE IF t = <<>> THEN FALSE
    ELSE IF Head(s) = Head(t) THEN IsSubseq(Tail(s), Tail(t))
    ELSE IsSubseq(s, Tail(t))

\* lines 45-63 without the wrapper: what the recursive function computes for
\* `nodes` when every call runs the body
RECURSIVE uncached_polynomial(_, _)
uncached_polynomial(nodes, nbrs) ==
    IF nodes = <<>> THEN base_poly
    ELSE result_poly(uncached_polynomial(remaining_nodes(nodes), nbrs),
                     uncached_polynomial(remaining_after_neighbors(nodes, nbrs), nbrs))

RECURSIVE SumOver(_, _)
SumOver(f, D) ==
    IF D = {} THEN 0
    ELSE LET k == CHOOSE k \in D : TRUE IN f[k] + SumOver(f, D \ {k})

----------------------------------------------------------------------------
(* C1 *)

\* C1: for a graph without self-loops, the coefficient at every degree i of
\* the array returned by the recursion on the full vertex tuple is the number
\* of independent vertex sets of size i.
C1_CountsIndependentSets ==
    (Returned /\ ~HasSelfLoop(graph)) =>
        /\ Len(coefficients) <= Len(graph.nodes) + 1
        /\ \A i \in 0..Len(graph.nodes) :
              Holds(CoeffAt(coefficients, i), IndependentSets(graph, i))

----------------------------------------------------------------------------
(* C2 *)

\* C2: every coefficient the combine step produces is the exact integer sum
\* of the exclude coefficient and the shifted include coefficient: it is not
\* reduced modulo the integer width and is never negative.
C2_ExactSums ==
    \A k \in DOMAIN cache :
        LET e == cache[k]
        IN  (/\ e.key # <<>>
             /\ remaining_nodes(e.key) \in CacheKeys(cache)
             /\ remaining_after_neighbors(e.key, neighbors_dict) \in CacheKeys(cache))
            => LET ex  == CacheGet(cache, remaining_nodes(e.key))
                   inc == CacheGet(cache, remaining_after_neighbors(e.key, neighbors_dict))
               IN  \A i \in 1..Len(e.result) :
                     Holds(e.result[i],
                           NatAdd(NatOf64(CoeffAt(ex, i - 1)),
                                  IF i >= 2 THEN NatOf64(CoeffAt(inc, i - 2)) ELSE <<>>))

----------------------------------------------------------------------------
(* C3 *)

\* C3: within one call of independence_polynomial the body of the recursive
\* function runs at most once for each vertex tuple.
C3_BodyOncePerKey == \A k \in DOMAIN computed : computed[k] <= 1

----------------------------------------------------------------------------
(* C4 *)

\* C4: whatever calls ran before, a call works on a cache and a counter of its
\* own: every cache entry was computed in this call, the counter counts this
\* call's invocations only, and the returned string is the one the graph
\* alone determines.
C4_FreshPerCall ==
    /\ CacheKeys(cache) \subseteq DOMAIN computed
    /\ \A k \in DOMAIN cache :
          cache[k].result = uncached_polynomial(cache[k].key, neighbors_dict)
    /\ recursion_count = SumOver(computed, DOMAIN computed)
    /\ pc = "done" =>
          poly_str = format_poly(uncached_polynomial(graph.nodes,
                                                     precompute_neighbors(graph)))

\* a call has completed on a graph with an edge after an earlier call
C4_Witness ==
    /\ warm
    /\ pc = "done"
    /\ ~Edgeless(graph)
    /\ hits > 0

----------------------------------------------------------------------------
(* C5 *)

ClaimTerm(i, coeff) ==
    IF i = 0 THEN Str64(coeff)
    ELSE IF i = 1 THEN Str64(coeff) \o <<"x">>
    ELSE Str64(coeff) \o <<"x", "^">> \o IntStr(i)

ClaimStr(coeffs) ==
    LET kept == SelectSeq([i \in 1..Len(coeffs) |-> i], LAMBDA i : coeffs[i] # Zero64)
    IN  Join([k \in 1..Len(kept) |-> ClaimTerm(kept[k] - 1, coeffs[kept[k]])])

\* C5: the returned string has, by increasing degree, one term for every
\* coefficient that is not zero and none for a zero coefficient: the bare
\* coefficient at degree 0, the coefficient and 'x' at degree 1, the
\* coefficient and 'x^i' at every degree i >= 2.
C5_TermPerNonzeroCoefficient == pc = "done" => poly_str = ClaimStr(coefficients)

----------------------------------------------------------------------------
(* C6 *)

\* C6: for a graph with a self-loop the recursion does not start and no
\* polynomial is returned.
C6_SelfLoopRejected ==
    HasSelfLoop(graph) =>
        /\ stack = <<>>
        /\ recursion_count = 0
        /\ coefficients = <<>>
        /\ poly_str = <<>>

----------------------------------------------------------------------------
(* C7 *)

\* C7: a computation that visits more distinct keys than the cache can hold
\* does not go on to return a result.
C7_CapacityReported == Returned => Cardinality(DOMAIN computed) <= maxsize

----------------------------------------------------------------------------
(* C8 *)

\* number of invocations nested below the outermost one
Depth == IF stack = <<>> THEN 0 ELSE Len(stack) - 1

----------------------------------------------------------------------------
(* C9 *)

\* the tuples passed to the recursive function so far in this call
Passed == {stack[j].nodes : j \in DOMAIN stack} \cup CacheKeys(cache) \cup DOMAIN computed

\* C9: every tuple passed to the recursive function, and so every cache key,
\* is a subsequence of the vertex order fixed at the start; a callee's tuple
\* is a subsequence of the caller's without the caller's head; two tuples
\* with the same vertices are the same tuple.
C9_CanonicalOrder ==
    /\ \A s \in Passed : IsSubseq(s, graph.nodes)
    /\ \A j \in 2..Len(stack) : IsSubseq(stack[j].nodes, Tail(stack[j - 1].nodes))
    /\ \A s, t \in Passed : SeqRange(s) = SeqRange(t) => s = t

\* a filtered tuple, not the caller's tail, arrives a second time and is
\* found in the cache
C9_Witness ==
    /\ pc = "running"
    /\ Len(stack) >= 2
    /\ Top.at = "call"
    /\ Len(Top.nodes) >= 1
    /\ Top.nodes # Tail(stack[Len(stack) - 1].nodes)
    /\ Top.nodes \in CacheKeys(cache)

----------------------------------------------------------------------------
(* C10 *)

\* C10: the empty key is never present in the cache.
C10_EmptyKeyNeverCached == <<>> \notin CacheKeys(cache)

\* what the invocation on top of `before` handed to its caller
Handed(before, after, coeffs) ==
    IF Len(before) = 1 THEN coeffs
    ELSE LET f == after[Len(before) - 1]
         IN  IF f.at = "got_exclude" THEN f.exclude_poly ELSE f.include_poly

\* C10 as amended: a call on the empty tuple goes through the cache like any
\* other call. It counts as one hit or one miss; on a miss the body runs,
\* returns [1] and [1] is stored under the empty key; on a hit [1] is
\* returned.
C10_EmptyKeyCached ==
    [][(pc = "running" /\ Top.nodes = <<>>) =>
          /\ Top.at = "call" => hits' + misses' = hits + misses + 1
          /\ (Top.at = "call" /\ <<>> \in CacheKeys(cache)) =>
                /\ hits' = hits + 1
                /\ Handed(stack, stack', coefficients') = <<One64>>
          /\ (Top.at = "call" /\ <<>> \notin CacheKeys(cache)) =>
                /\ misses' = misses + 1
                /\ recursion_count' = recursion_count + 1
          /\ Top.at = "body" =>
                /\ Handed(stack, stack', coefficients') = <<One64>>
                /\ <<>> \in CacheKeys(cache')
                /\ CacheGet(cache', <<>>) = <<One64>>]_vars

\* a call on the empty tuple arrives when the empty key is already cached
C10_Witness ==
    /\ pc = "running"
    /\ Top.nodes = <<>>
    /\ Top.at = "call"
    /\ <<>> \in CacheKeys(cache)

====
